---- MODULE Spec2Model ----
(***************************************************************************)
(* dstack-mining-backend: the health sidecar of src/src/main.rs.           *)
(*                                                                         *)
(* The model follows main() from its first line: configuration, keypair,   *)
(* the registration workflow against the registry, the listener, and then  *)
(* the /health handler with its probe of the dstack inventory backend.     *)
(* Strings of the program are TLA+ strings; format!() is \o.               *)
(***************************************************************************)
EXTENDS Integers, Sequences, FiniteSets, TLC

VARIABLES
    pc,                 \* main()'s position
    exit_code,          \* process exit status, NoExit while the process runs
    env,                \* the environment variables main() reads
    key_file,           \* content of {DATA_DIR}/key
    registry_url,       \* main's local registry_url
    owner,              \* main's local owner_address_formatted
    node_type,          \* main's local node_type
    connection,         \* main's local connection (DStackConnection)
    local_ip,           \* main's local local_ip
    nostr_pubkey,       \* main's local nostr_pubkey
    workflow,           \* position inside ensure_worker_registered
    check_response,     \* what the registry answered to the GET
    register_response,  \* what the registry answered to the POST
    requests,           \* the requests sent to the registry, in order
    app_state,          \* Arc<AppState> shared by the handlers
    queries,            \* per in-flight slot: position of health_handler
    response,           \* the last probe, the (StatusCode, Json<BackendInfo>)
                        \* health_handler returned for it, and for the record
                        \* the status of the report returned before it
    earlier_runs,       \* per ended run of the sidecar on this data directory:
                        \* the key file and the public key it ended with
    startup_backend,    \* what the dstack backend would answer while main()
                        \* starts up: main() never asks it
    wl_pc,              \* whitelist_service: main()'s position
    whitelist_file,     \* content of the whitelist file (WHITELIST_FILE of
                        \* whitelist_service); the sidecar never touches it
    whitelist,          \* whitelist_service: AppState.whitelist.pubkeys
    wl_created,         \* whitelist_service: load_whitelist took its else branch
    wl_response,        \* whitelist_service: the last request and its answer
    rt                  \* a value on its way through serde_json and back

main_vars == <<pc, exit_code, env, key_file, registry_url, owner, node_type,
               connection, local_ip, nostr_pubkey, workflow, check_response,
               register_response, requests, app_state, queries, response>>

\* what no step of the sidecar's main() and handlers changes
other_vars == <<earlier_runs, startup_backend, wl_pc, whitelist_file, whitelist,
                wl_created, wl_response, rt>>

\* the variables of the whitelist_service binary
wl_vars == <<wl_pc, whitelist_file, whitelist, wl_created, wl_response>>

vars == <<main_vars, other_vars>>

----------------------------------------------------------------------------
(* Bounds of the model *)

\* health queries that can be in flight at the same time
MaxQueries == 2
\* GPU records in one inventory answer of the backend
MaxGpus == 2
\* connection attempts the backend can refuse in a row while main() starts
MaxOutage == 5
\* starts of the sidecar process on one data directory
MaxStarts == 3
\* public keys in one pubkeys set
MaxPubkeys == 3

----------------------------------------------------------------------------
(* Rust's Option and Result *)

None == [some |-> FALSE]
Some(v) == [some |-> TRUE, value |-> v]
Ok(v) == [ok |-> TRUE, value |-> v]
Err(e) == [ok |-> FALSE, error |-> e]

----------------------------------------------------------------------------
(* Strings *)

\* str::starts_with
StartsWith(s, p) == Len(s) >= Len(p) /\ SubSeq(s, 1, Len(p)) = p

\* str::strip_prefix(p).unwrap(), called only when StartsWith(s, p)
StripPrefix(s, p) == SubSeq(s, Len(p) + 1, Len(s))

RECURSIVE TrimStart(_)
TrimStart(s) ==
    IF Len(s) > 0 /\ SubSeq(s, 1, 1) = " " THEN TrimStart(SubSeq(s, 2, Len(s))) ELSE s

RECURSIVE TrimEnd(_)
TrimEnd(s) ==
    IF Len(s) > 0 /\ SubSeq(s, Len(s), Len(s)) = " "
    THEN TrimEnd(SubSeq(s, 1, Len(s) - 1)) ELSE s

\* str::trim
Trim(s) == TrimEnd(TrimStart(s))

----------------------------------------------------------------------------
(* HTTP status codes *)

\* StatusCode::is_success: 200..=299
IsSuccess(code) == code >= 200 /\ code <= 299

\* Display of http::StatusCode: the number and its canonical reason
StatusDisplay(code) ==
    CASE code = 200 -> "200 OK"
      [] code = 201 -> "201 Created"
      [] code = 400 -> "400 Bad Request"
      [] code = 404 -> "404 Not Found"
      [] code = 500 -> "500 Internal Server Error"
      [] code = 503 -> "503 Service Unavailable"

----------------------------------------------------------------------------
(* The environment main() starts in *)

DefaultListenAddr == "0.0.0.0:8080"
DefaultDstackUrl == "http://localhost:19060"
DefaultNodeType == "node-H100x1"

\* alloy's Address: FromStr accepts 40 hex digits in any case, Display prints
\* the EIP-55 checksummed form
AddressDisplay ==
    [a \in {"0x5aaeb6053f3e94c9b9a09f33669435e7ef1beaed"} |->
        "0x5aAeb6053F3E94C9b9A09f33669435E7Ef1BeAed"]

ParseAddress(s) ==
    IF s \in DOMAIN AddressDisplay THEN Ok(AddressDisplay[s]) ELSE Err("invalid string length")

\* SocketAddr::from_str
ParseSocketAddr(s) ==
    IF s \in {"0.0.0.0:8080", "0.0.0.0:8082", "127.0.0.1:18080"} THEN Ok(s) ELSE Err("invalid socket address syntax")

BaseEnv ==
    [LISTEN_ADDR |-> None,
     DSTACK_URL |-> None,
     DSTACK_BACKEND_DSTACK_URL |-> None,
     REGISTRY_URL |-> Some("http://registry:3000"),
     OWNER_ADDRESS |-> Some("0x5aaeb6053f3e94c9b9a09f33669435e7ef1beaed"),
     NODE_TYPE |-> None]

\* the environments the model starts from: all defaults with an HTTP backend,
\* everything set with a Unix socket backend, and the ones main() panics on
Envs ==
    { BaseEnv,
      [BaseEnv EXCEPT !.DSTACK_URL = Some(" unix:///var/run/dstack.sock "),
                      !.DSTACK_BACKEND_DSTACK_URL = Some("http://ignored:1"),
                      !.NODE_TYPE = Some("node-H200x8"),
                      !.LISTEN_ADDR = Some("127.0.0.1:18080")],
      [BaseEnv EXCEPT !.REGISTRY_URL = None],
      [BaseEnv EXCEPT !.OWNER_ADDRESS = None],
      [BaseEnv EXCEPT !.OWNER_ADDRESS = Some("not-an-address")],
      [BaseEnv EXCEPT !.DSTACK_BACKEND_DSTACK_URL = Some("http://dstack:8000"),
                      !.LISTEN_ADDR = Some("localhost")] }

\* Option::unwrap_or_else(default) of std::env::var(name)
UnwrapOr(opt, default) == IF opt.some THEN opt.value ELSE default

\* what get_local_ip() can return on the host
LocalIps == {None, Some("10.0.0.5")}

----------------------------------------------------------------------------
(* The Nostr keypair *)

\* secret keys Keys::generate() can draw, in the hex form written to the file
SecretKeys == {"5ec0000000000001", "5ec0000000000002"}

\* Keys::public_key().to_hex()
PublicKeyHex(secret) ==
    IF secret = "5ec0000000000001" THEN "b0b0000000000001" ELSE "b0b0000000000002"

\* Keys::parse: the content must be a secret key
ParseKeys(content) ==
    IF content \in SecretKeys THEN Ok(content) ELSE Err("invalid secret key")

\* the key file before the process starts: absent, written by an earlier run,
\* or damaged
KeyFiles == {None, Some("5ec0000000000001"), Some("garbage")}

----------------------------------------------------------------------------
(* The registry *)

\* bodies the registry can send to GET /permissions/{pubkey}
PermissionBodies ==
    { [kind |-> "json", doc |-> [write |-> [mode |-> "AllowAll"]]],
      [kind |-> "json", doc |-> [write |-> [mode |-> "Whitelist"]]],
      [kind |-> "json", doc |-> [read |-> [mode |-> "AllowAll"]]],
      [kind |-> "malformed", doc |-> [raw |-> "<html>"]] }

AllowAllBody == [kind |-> "json", doc |-> [write |-> [mode |-> "AllowAll"]]]

\* what can happen to the GET: no answer at the network level, or a response
CheckBehaviours ==
    { [kind |-> "unreachable", detail |-> "error sending request"] }
    \cup { [kind |-> "response", status |-> 200, body |-> b] : b \in PermissionBodies }
    \cup { [kind |-> "response", status |-> 201, body |-> AllowAllBody],
           [kind |-> "response", status |-> 404, body |-> AllowAllBody],
           [kind |-> "response", status |-> 500,
            body |-> [kind |-> "malformed", doc |-> [raw |-> "<html>"]]] }

RegisterStatuses == {201, 400, 500}

\* what can happen to the POST
RegisterBehaviours ==
    { [kind |-> "unreachable", detail |-> "error sending request"] }
    \cup { [kind |-> "response", status |-> s, body |-> "registry says no"] :
             s \in RegisterStatuses }

\* Response::json::<PermissionResponse>(): the body must be a JSON object with
\* write.mode; other fields are ignored
ParsePermissionResponse(body) ==
    IF /\ body.kind = "json"
       /\ "write" \in DOMAIN body.doc
       /\ "mode" \in DOMAIN body.doc.write
    THEN Ok([write |-> [mode |-> body.doc.write.mode]])
    ELSE Err("error decoding response body")

\* check_worker_registered with the success test narrowed to status 200
check_worker_registered_Only200(behaviour) ==
    IF behaviour.kind = "response"
    THEN IF behaviour.status = 200
         THEN LET perm_response == ParsePermissionResponse(behaviour.body)
              IN  IF perm_response.ok
                  THEN Ok(perm_response.value.write.mode = "AllowAll")
                  ELSE Ok(FALSE)
         ELSE Ok(FALSE)
    ELSE Err(behaviour.detail)

\* check_worker_registered, given what the registry did with the GET
check_worker_registered(behaviour) ==
    IF behaviour.kind = "response"
    THEN IF IsSuccess(behaviour.status)
         THEN LET perm_response == ParsePermissionResponse(behaviour.body)
              IN  IF perm_response.ok
                  THEN Ok(perm_response.value.write.mode = "AllowAll")
                  ELSE Ok(FALSE)
         ELSE Ok(FALSE)
    ELSE Err(behaviour.detail)

\* register_worker with the success test narrowed to status 200
register_worker_Only200(behaviour) ==
    IF behaviour.kind = "response"
    THEN IF behaviour.status = 200
         THEN Ok("unit")
         ELSE Err("Registration failed: " \o StatusDisplay(behaviour.status)
                  \o " - " \o behaviour.body)
    ELSE Err(behaviour.detail)

\* register_worker, given what the registry did with the POST
register_worker(behaviour) ==
    IF behaviour.kind = "response"
    THEN IF IsSuccess(behaviour.status)
         THEN Ok("unit")
         ELSE Err("Registration failed: " \o StatusDisplay(behaviour.status)
                  \o " - " \o behaviour.body)
    ELSE Err(behaviour.detail)

\* the GET of check_worker_registered
CheckRequest(url, pubkey) ==
    [method |-> "GET", url |-> url \o "/permissions/" \o pubkey, body |-> None]

\* a POST that registers the default node type whatever main() passes
RegisterRequest_DefaultNodeType(url, pubkey, own, ntype) ==
    [method |-> "POST", url |-> url \o "/workers",
     body |-> Some([pubkey |-> pubkey, owner |-> own, node_type |-> "node-H100x1"])]

\* the POST of register_worker, with its WorkerRegistration body
RegisterRequest(url, pubkey, own, ntype) ==
    [method |-> "POST", url |-> url \o "/workers",
     body |-> Some([pubkey |-> pubkey, owner |-> own, node_type |-> ntype])]

----------------------------------------------------------------------------
(* The dstack inventory backend *)

\* GPU records the backend can report
GpuSamples ==
    { [slot |-> "0", product_id |-> "X", description |-> "NVIDIA H100", is_free |-> TRUE],
      [slot |-> "1", product_id |-> "Y", description |-> "NVIDIA H200", is_free |-> FALSE] }

GpuLists == UNION { [1..n -> GpuSamples] : n \in 0..MaxGpus }

\* JSON documents of the shape /prpc/ListGpus?json answers with
InventoryDocs == [gpus : GpuLists, allow_attach_all : BOOLEAN]

\* bodies that do not decode: not JSON, JSON without a required field, and a
\* body whose transfer breaks off
BadBodies ==
    { [kind |-> "malformed", doc |-> [raw |-> "<html>"]],
      [kind |-> "json", doc |-> [gpus |-> <<>>]],
      [kind |-> "unreadable", doc |-> [raw |-> "connection reset"]] }

InventoryBodies == { [kind |-> "json", doc |-> d] : d \in InventoryDocs }

\* bodies sent along with an error status
ErrorPageBodies ==
    { [kind |-> "malformed", doc |-> [raw |-> "<html>"]],
      [kind |-> "json", doc |-> [gpus |-> <<>>, allow_attach_all |-> TRUE]] }

BackendErrorStatuses == {404, 503}

\* what can happen to one probe
BackendBehaviours ==
    { [kind |-> "unreachable", detail |-> "connection refused"] }
    \cup { [kind |-> "response", status |-> 200, body |-> b] :
             b \in InventoryBodies \cup BadBodies }
    \cup { [kind |-> "response", status |-> s, body |-> b] :
             s \in BackendErrorStatuses, b \in ErrorPageBodies }

\* serde's Deserialize for GpuInfo: the four fields, anything else ignored
DeserializeGpuInfo(doc) ==
    [slot |-> doc.slot, product_id |-> doc.product_id,
     description |-> doc.description, is_free |-> doc.is_free]

\* serde_json's decoding of a body into DStackResponse
DeserializeDStackResponse(body) ==
    IF body.kind # "json"
    THEN Err("expected value at line 1 column 1")
    ELSE IF "gpus" \notin DOMAIN body.doc
    THEN Err("missing field gpus")
    ELSE IF "allow_attach_all" \notin DOMAIN body.doc
    THEN Err("missing field allow_attach_all")
    ELSE Ok([gpus |-> [i \in 1..Len(body.doc.gpus) |-> DeserializeGpuInfo(body.doc.gpus[i])],
             allow_attach_all |-> body.doc.allow_attach_all])

\* the Http arm without the test of the status
FetchHttp_NoStatusCheck(behaviour) ==
    IF behaviour.kind # "response"
    THEN Err("HTTP request failed: " \o behaviour.detail)
    ELSE IF behaviour.body.kind = "unreadable"
    THEN Err("Failed to parse JSON: " \o behaviour.body.doc.raw)
    ELSE LET parsed == DeserializeDStackResponse(behaviour.body)
         IN  IF parsed.ok THEN parsed ELSE Err("Failed to parse JSON: " \o parsed.error)

\* the Http arm with one error text for the request, the status and the body
FetchHttp_OneErrorText(behaviour) ==
    IF behaviour.kind # "response"
    THEN Err("Failed to parse JSON: " \o behaviour.detail)
    ELSE IF ~IsSuccess(behaviour.status)
    THEN Err("Failed to parse JSON: " \o StatusDisplay(behaviour.status))
    ELSE IF behaviour.body.kind = "unreadable"
    THEN Err("Failed to parse JSON: " \o behaviour.body.doc.raw)
    ELSE LET parsed == DeserializeDStackResponse(behaviour.body)
         IN  IF parsed.ok THEN parsed ELSE Err("Failed to parse JSON: " \o parsed.error)

\* the Http arm of fetch_dstack_data; reqwest's json() reads the body and
\* decodes it, and reports both failures as its own error
FetchHttp(behaviour) ==
    IF behaviour.kind # "response"
    THEN Err("HTTP request failed: " \o behaviour.detail)
    ELSE IF ~IsSuccess(behaviour.status)
    THEN Err("HTTP error: " \o StatusDisplay(behaviour.status))
    ELSE IF behaviour.body.kind = "unreadable"
    THEN Err("Failed to parse JSON: " \o behaviour.body.doc.raw)
    ELSE LET parsed == DeserializeDStackResponse(behaviour.body)
         IN  IF parsed.ok THEN parsed ELSE Err("Failed to parse JSON: " \o parsed.error)

\* the UnixSocket arm reporting a non-success status with the text of a
\* failed request
FetchUnixSocket_StatusAsRequestFailure(behaviour) ==
    IF behaviour.kind # "response"
    THEN Err("Unix socket request failed: " \o behaviour.detail)
    ELSE IF ~IsSuccess(behaviour.status)
    THEN Err("Unix socket request failed: " \o StatusDisplay(behaviour.status))
    ELSE IF behaviour.body.kind = "unreadable"
    THEN Err("Failed to read response body: " \o behaviour.body.doc.raw)
    ELSE LET parsed == DeserializeDStackResponse(behaviour.body)
         IN  IF parsed.ok THEN parsed ELSE Err("Failed to parse JSON: " \o parsed.error)

\* the UnixSocket arm decoding the body whatever the status
FetchUnixSocket_NoStatusCheck(behaviour) ==
    IF behaviour.kind # "response"
    THEN Err("Unix socket request failed: " \o behaviour.detail)
    ELSE IF behaviour.body.kind = "unreadable"
    THEN Err("Failed to read response body: " \o behaviour.body.doc.raw)
    ELSE LET parsed == DeserializeDStackResponse(behaviour.body)
         IN  IF parsed.ok THEN parsed ELSE Err("Failed to parse JSON: " \o parsed.error)

\* the UnixSocket arm of fetch_dstack_data. hyperlocal builds the URI from the
\* hex-encoded socket path, so Request::builder() has a valid URI and its
\* "Failed to build request" arm is not taken.
FetchUnixSocket(behaviour) ==
    IF behaviour.kind # "response"
    THEN Err("Unix socket request failed: " \o behaviour.detail)
    ELSE IF ~IsSuccess(behaviour.status)
    THEN Err("HTTP error: " \o StatusDisplay(behaviour.status))
    ELSE IF behaviour.body.kind = "unreadable"
    THEN Err("Failed to read response body: " \o behaviour.body.doc.raw)
    ELSE LET parsed == DeserializeDStackResponse(behaviour.body)
         IN  IF parsed.ok THEN parsed ELSE Err("Failed to parse JSON: " \o parsed.error)

\* the texts the map_err and Err(format!(..)) of the Http arm begin with
HttpErrorPrefixes == {"HTTP request failed: ", "HTTP error: ", "Failed to parse JSON: "}

\* the texts the map_err and Err(format!(..)) of the UnixSocket arm begin with
UnixSocketErrorPrefixes ==
    {"Failed to build request: ", "Unix socket request failed: ", "HTTP error: ",
     "Failed to read response body: ", "Failed to parse JSON: "}

fetch_dstack_data(conn, behaviour) ==
    IF conn.kind = "Http" THEN FetchHttp(behaviour) ELSE FetchUnixSocket(behaviour)

----------------------------------------------------------------------------
(* The health report *)

\* a String that holds JSON text is modelled by the document it denotes, any
\* other String by its text
JsonText(doc) == [json |-> doc]
PlainText(s) == [text |-> s]

\* the json!({...}) with gpu_count counting the free GPUs only
MetadataJson_CountsFree(dstack_data) ==
    [gpu_count |-> Cardinality({i \in 1..Len(dstack_data.gpus) : dstack_data.gpus[i].is_free}),
     gpus |-> [i \in 1..Len(dstack_data.gpus) |->
                 [slot |-> dstack_data.gpus[i].slot,
                  product_id |-> dstack_data.gpus[i].product_id,
                  description |-> dstack_data.gpus[i].description,
                  is_free |-> dstack_data.gpus[i].is_free]],
     allow_attach_all |-> dstack_data.allow_attach_all]

\* the serde_json::json!({...}) of check_dstack_health
MetadataJson(dstack_data) ==
    [gpu_count |-> Len(dstack_data.gpus),
     gpus |-> [i \in 1..Len(dstack_data.gpus) |->
                 [slot |-> dstack_data.gpus[i].slot,
                  product_id |-> dstack_data.gpus[i].product_id,
                  description |-> dstack_data.gpus[i].description,
                  is_free |-> dstack_data.gpus[i].is_free]],
     allow_attach_all |-> dstack_data.allow_attach_all]

\* the HashSet built by HashSet::new() and one insert
ReportPubkeys(state) == {state.nostr_pubkey}

\* the Ok arm of check_dstack_health
AvailableInfo(state, dstack_data) ==
    [version |-> "1.0.0",
     topic |-> "dstack-gpu-monitor",
     pubkeys |-> ReportPubkeys(state),
     status |-> "Available",
     metadata |-> Some(JsonText(MetadataJson(dstack_data))),
     ip_address |-> state.local_ip]

\* the Err arm without the insert into pubkeys
UnavailableInfo_NoPubkey(state, e) ==
    [version |-> "1.0.0",
     topic |-> "dstack-gpu-monitor",
     pubkeys |-> {},
     status |-> "Unavailable",
     metadata |-> Some(PlainText("Error: " \o e)),
     ip_address |-> state.local_ip]

\* the Err arm of check_dstack_health
UnavailableInfo(state, e) ==
    [version |-> "1.0.0",
     topic |-> "dstack-gpu-monitor",
     pubkeys |-> ReportPubkeys(state),
     status |-> "Unavailable",
     metadata |-> Some(PlainText("Error: " \o e)),
     ip_address |-> state.local_ip]

\* check_dstack_health, given what the backend did with this call's probe
check_dstack_health(state, behaviour) ==
    LET fetched == fetch_dstack_data(state.connection, behaviour)
    IN  IF fetched.ok
        THEN AvailableInfo(state, fetched.value)
        ELSE UnavailableInfo(state, fetched.error)

\* the handler answering 200 whatever the report says
HealthStatusCode_Always200(backend_info) == 200

\* the match of health_handler: StatusCode::OK or SERVICE_UNAVAILABLE
HealthStatusCode(backend_info) ==
    IF backend_info.status = "Available" THEN 200 ELSE 503

\* health_handler's return value
health_handler(state, behaviour) ==
    LET backend_info == check_dstack_health(state, behaviour)
    IN  [status_code |-> HealthStatusCode(backend_info), body |-> backend_info]

----------------------------------------------------------------------------
(* main() up to the registration workflow *)

\* DSTACK_URL, else DSTACK_BACKEND_DSTACK_URL, else the default; trimmed
DstackUrlConfig(e) ==
    Trim(IF e.DSTACK_URL.some THEN e.DSTACK_URL.value
         ELSE UnwrapOr(e.DSTACK_BACKEND_DSTACK_URL, DefaultDstackUrl))

\* a main() that only knows the Http variant
MakeConnection_AlwaysHttp(dstack_url_config) ==
    [kind |-> "Http", url |-> dstack_url_config]

\* the choice of the DStackConnection variant from the configured URL
MakeConnection(dstack_url_config) ==
    IF StartsWith(dstack_url_config, "unix://")
    THEN [kind |-> "UnixSocket", socket_path |-> StripPrefix(dstack_url_config, "unix://")]
    ELSE [kind |-> "Http", url |-> dstack_url_config]

\* a panic unwinds main: the process ends with Rust's panic status
Panic ==
    /\ pc' = "panicked"
    /\ exit_code' = Some(101)

\* the sidecar's process at its first instruction
InitMain ==
    /\ pc = "start"
    /\ exit_code = None
    /\ env \in Envs
    /\ key_file \in KeyFiles
    /\ registry_url = ""
    /\ owner = ""
    /\ node_type = ""
    /\ connection = [kind |-> "unset"]
    /\ local_ip = None
    /\ nostr_pubkey = ""
    /\ workflow = "Unknown"
    /\ check_response = None
    /\ register_response = None
    /\ requests = <<>>
    /\ app_state = None
    /\ queries = [q \in 1..MaxQueries |-> "idle"]
    /\ response = None

\* a backend that is unreachable for the first outage connection attempts and
\* then answers 200 with doc
StartupBackends == [outage : 0..MaxOutage, doc : InventoryDocs]

\* the first start of the sidecar, next to a backend that is up
FirstStart ==
    /\ earlier_runs = <<>>
    /\ startup_backend = [outage |-> 0, doc |-> [gpus |-> <<>>, allow_attach_all |-> TRUE]]

\* the whitelist_service binary is not running
WhitelistOff ==
    /\ wl_pc = "off"
    /\ whitelist_file = None
    /\ whitelist = {}
    /\ wl_created = FALSE
    /\ wl_response = None

\* nothing is being serialized
RoundTripOff == rt = [pc |-> "off"]

Init ==
    /\ InitMain
    /\ FirstStart
    /\ WhitelistOff
    /\ RoundTripOff

\* main() from the reading of the environment to get_local_ip()
ReadConfig ==
    /\ pc = "start"
    /\ IF /\ env.REGISTRY_URL.some
          /\ env.OWNER_ADDRESS.some
          /\ ParseAddress(env.OWNER_ADDRESS.value).ok
       THEN /\ registry_url' = env.REGISTRY_URL.value
            /\ owner' = ParseAddress(env.OWNER_ADDRESS.value).value
            /\ node_type' = UnwrapOr(env.NODE_TYPE, DefaultNodeType)
            /\ connection' = MakeConnection(DstackUrlConfig(env))
            /\ local_ip' \in LocalIps
            /\ pc' = "load_keys"
            /\ UNCHANGED exit_code
       ELSE /\ Panic
            /\ UNCHANGED <<registry_url, owner, node_type, connection, local_ip>>
    /\ UNCHANGED <<env, key_file, nostr_pubkey, workflow, check_response,
                   register_response, requests, app_state, queries, response>>
    /\ UNCHANGED other_vars

\* a load_or_create_nostr_keypair that generates and writes a key on every
\* start
LoadOrCreateKeypair_AlwaysGenerates ==
    /\ pc = "load_keys"
    /\ \E fs_ok \in BOOLEAN, generated \in SecretKeys :
         IF fs_ok
         THEN /\ key_file' = Some(generated)
              /\ nostr_pubkey' = PublicKeyHex(generated)
              /\ pc' = "ensure_registered"
              /\ UNCHANGED exit_code
         ELSE /\ Panic
              /\ UNCHANGED <<key_file, nostr_pubkey>>
    /\ UNCHANGED <<env, registry_url, owner, node_type, connection, local_ip,
                   workflow, check_response, register_response, requests,
                   app_state, queries, response>>
    /\ UNCHANGED other_vars

\* load_or_create_nostr_keypair and main's expect() on it; fs_ok is whether
\* the file system calls succeed
LoadOrCreateKeypair ==
    /\ pc = "load_keys"
    /\ \E fs_ok \in BOOLEAN, generated \in SecretKeys :
         IF key_file.some
         THEN /\ IF fs_ok /\ ParseKeys(key_file.value).ok
                 THEN /\ nostr_pubkey' = PublicKeyHex(ParseKeys(key_file.value).value)
                      /\ pc' = "ensure_registered"
                      /\ UNCHANGED exit_code
                 ELSE /\ Panic
                      /\ UNCHANGED nostr_pubkey
              /\ UNCHANGED key_file
         ELSE IF fs_ok
              THEN /\ key_file' = Some(generated)
                   /\ nostr_pubkey' = PublicKeyHex(generated)
                   /\ pc' = "ensure_registered"
                   /\ UNCHANGED exit_code
              ELSE /\ Panic
                   /\ UNCHANGED <<key_file, nostr_pubkey>>
    /\ UNCHANGED <<env, registry_url, owner, node_type, connection, local_ip,
                   workflow, check_response, register_response, requests,
                   app_state, queries, response>>
    /\ UNCHANGED other_vars

----------------------------------------------------------------------------
(* ensure_worker_registered and main's match on its result *)

\* AfterCheck that returns Ok(()) as soon as the check was answered, whatever
\* the answer
AfterCheck_SkipWhenAnswered(checked) ==
    IF checked.ok THEN "AlreadyRegistered" ELSE "CheckFailed"

\* AfterCheck that propagates the check's error instead of going on
AfterCheck_FailClosed(checked) ==
    IF checked.ok
    THEN IF checked.value THEN "AlreadyRegistered" ELSE "NeedsRegistration"
    ELSE "FatalFailure"

\* the match on check_worker_registered's result: return Ok(()) at once, or
\* go on to register_worker
AfterCheck(checked) ==
    IF checked.ok
    THEN IF checked.value THEN "AlreadyRegistered" ELSE "NeedsRegistration"
    ELSE "CheckFailed"

\* an ensure_worker_registered that goes back to register_worker when the
\* POST was refused
AfterRegister_RetriesWhenRefused(registered) ==
    IF registered.ok THEN "Done" ELSE "NeedsRegistration"

\* ensure_worker_registered returns register_worker's result
AfterRegister(registered) ==
    IF registered.ok THEN "Done" ELSE "FatalFailure"

\* main that logs the registration error and goes on to serve
MainAfterWorkflow_NeverExits(ended) ==
    [pc |-> "bind", exit_code |-> None]

\* main that goes on only when this run has registered the worker itself
MainAfterWorkflow_ExitsUnlessDone(ended) ==
    IF ended = "Done"
    THEN [pc |-> "bind", exit_code |-> None]
    ELSE [pc |-> "exited", exit_code |-> Some(1)]

\* main's match on ensure_worker_registered: Ok goes on to build the
\* server, Err calls std::process::exit(1)
MainAfterWorkflow(ended) ==
    IF ended \in {"AlreadyRegistered", "Done"}
    THEN [pc |-> "bind", exit_code |-> None]
    ELSE [pc |-> "exited", exit_code |-> Some(1)]

\* ensure_worker_registered is entered and check_worker_registered sends its GET
SendCheck ==
    /\ pc = "ensure_registered"
    /\ workflow = "Unknown"
    /\ requests' = Append(requests, CheckRequest(registry_url, nostr_pubkey))
    /\ workflow' = "Checking"
    /\ UNCHANGED <<pc, exit_code, env, key_file, registry_url, owner, node_type,
                   connection, local_ip, nostr_pubkey, check_response,
                   register_response, app_state, queries, response>>
    /\ UNCHANGED other_vars

\* the GET's await returns
CheckResponds ==
    /\ pc = "ensure_registered"
    /\ workflow = "Checking"
    /\ \E behaviour \in CheckBehaviours :
         LET ended == AfterCheck(check_worker_registered(behaviour))
         IN  /\ check_response' = Some(behaviour)
             /\ workflow' = ended
             /\ IF ended = "AlreadyRegistered"
                THEN /\ pc' = MainAfterWorkflow(ended).pc
                     /\ exit_code' = MainAfterWorkflow(ended).exit_code
                ELSE UNCHANGED <<pc, exit_code>>
    /\ UNCHANGED <<env, key_file, registry_url, owner, node_type, connection,
                   local_ip, nostr_pubkey, register_response, requests,
                   app_state, queries, response>>
    /\ UNCHANGED other_vars

\* register_worker sends its POST
SendRegister ==
    /\ pc = "ensure_registered"
    /\ workflow \in {"NeedsRegistration", "CheckFailed"}
    /\ requests' = Append(requests,
                          RegisterRequest(registry_url, nostr_pubkey, owner, node_type))
    /\ workflow' = "Registering"
    /\ UNCHANGED <<pc, exit_code, env, key_file, registry_url, owner, node_type,
                   connection, local_ip, nostr_pubkey, check_response,
                   register_response, app_state, queries, response>>
    /\ UNCHANGED other_vars

\* the POST's await returns
RegisterResponds ==
    /\ pc = "ensure_registered"
    /\ workflow = "Registering"
    /\ \E behaviour \in RegisterBehaviours :
         LET ended == AfterRegister(register_worker(behaviour))
         IN  /\ register_response' = Some(behaviour)
             /\ workflow' = ended
             /\ pc' = MainAfterWorkflow(ended).pc
             /\ exit_code' = MainAfterWorkflow(ended).exit_code
    /\ UNCHANGED <<env, key_file, registry_url, owner, node_type, connection,
                   local_ip, nostr_pubkey, check_response, requests,
                   app_state, queries, response>>
    /\ UNCHANGED other_vars

----------------------------------------------------------------------------
(* main() after the registration workflow, and the /health handler *)

\* the AppState main builds
MakeAppState ==
    [connection |-> connection, nostr_pubkey |-> nostr_pubkey, local_ip |-> local_ip]

\* AppState, the router, the parse of the listen address and the bind;
\* bind_ok is whether the operating system grants the address
StartServer ==
    /\ pc = "bind"
    /\ app_state' = Some(MakeAppState)
    /\ \E bind_ok \in BOOLEAN :
         IF ParseSocketAddr(UnwrapOr(env.LISTEN_ADDR, DefaultListenAddr)).ok /\ bind_ok
         THEN /\ pc' = "serving"
              /\ UNCHANGED exit_code
         ELSE Panic
    /\ UNCHANGED <<env, key_file, registry_url, owner, node_type, connection,
                   local_ip, nostr_pubkey, workflow, check_response,
                   register_response, requests, queries, response>>
    /\ UNCHANGED other_vars

\* a GET /health arrives: health_handler runs up to the probe's await
HealthQuery(q) ==
    /\ pc = "serving"
    /\ queries[q] = "idle"
    /\ queries' = [queries EXCEPT ![q] = "probing"]
    /\ UNCHANGED <<pc, exit_code, env, key_file, registry_url, owner, node_type,
                   connection, local_ip, nostr_pubkey, workflow, check_response,
                   register_response, requests, app_state, response>>
    /\ UNCHANGED other_vars

\* the status of the last report sent so far, "none" before the first
StatusBefore ==
    IF response.some THEN response.value.reply.body.status ELSE "none"

\* a health_handler that probes for the first query and answers every later
\* one with the report it made then
ProbeCompletes_ReusesFirstReport(q) ==
    /\ pc = "serving"
    /\ queries[q] = "probing"
    /\ \E behaviour \in BackendBehaviours :
         response' = Some([behaviour |-> behaviour,
                           reply |-> IF response.some THEN response.value.reply
                                     ELSE health_handler(app_state.value, behaviour),
                           before |-> StatusBefore])
    /\ queries' = [queries EXCEPT ![q] = "idle"]
    /\ UNCHANGED <<pc, exit_code, env, key_file, registry_url, owner, node_type,
                   connection, local_ip, nostr_pubkey, workflow, check_response,
                   register_response, requests, app_state>>
    /\ UNCHANGED other_vars

\* a health_handler whose probe fails when another probe is under way on the
\* shared client
ProbeCompletes_OneProbeAtATime(q) ==
    /\ pc = "serving"
    /\ queries[q] = "probing"
    /\ \E behaviour \in BackendBehaviours :
         response' = Some([behaviour |-> behaviour,
                           reply |-> IF \E other \in 1..MaxQueries :
                                           other # q /\ queries[other] = "probing"
                                     THEN health_handler(app_state.value,
                                              [kind |-> "unreachable", detail |-> "client busy"])
                                     ELSE health_handler(app_state.value, behaviour),
                           before |-> StatusBefore])
    /\ queries' = [queries EXCEPT ![q] = "idle"]
    /\ UNCHANGED <<pc, exit_code, env, key_file, registry_url, owner, node_type,
                   connection, local_ip, nostr_pubkey, workflow, check_response,
                   register_response, requests, app_state>>
    /\ UNCHANGED other_vars

\* a health_handler that asks the registry for the worker's permission before
\* it answers
ProbeCompletes_RechecksRegistry(q) ==
    /\ pc = "serving"
    /\ queries[q] = "probing"
    /\ \E behaviour \in BackendBehaviours :
         response' = Some([behaviour |-> behaviour,
                           reply |-> health_handler(app_state.value, behaviour),
                           before |-> StatusBefore])
    /\ queries' = [queries EXCEPT ![q] = "idle"]
    /\ requests' = Append(requests, CheckRequest(registry_url, nostr_pubkey))
    /\ UNCHANGED <<pc, exit_code, env, key_file, registry_url, owner, node_type,
                   connection, local_ip, nostr_pubkey, workflow, check_response,
                   register_response, app_state>>
    /\ UNCHANGED other_vars

\* a health_handler that ends the process when its probe failed
ProbeCompletes_ExitsOnFailedProbe(q) ==
    /\ pc = "serving"
    /\ queries[q] = "probing"
    /\ \E behaviour \in BackendBehaviours :
         IF fetch_dstack_data(app_state.value.connection, behaviour).ok
         THEN /\ response' = Some([behaviour |-> behaviour,
                                   reply |-> health_handler(app_state.value, behaviour),
                                   before |-> StatusBefore])
              /\ queries' = [queries EXCEPT ![q] = "idle"]
              /\ UNCHANGED <<pc, exit_code>>
         ELSE /\ pc' = "exited"
              /\ exit_code' = Some(1)
              /\ UNCHANGED <<response, queries>>
    /\ UNCHANGED <<env, key_file, registry_url, owner, node_type,
                   connection, local_ip, nostr_pubkey, workflow, check_response,
                   register_response, requests, app_state>>
    /\ UNCHANGED other_vars

\* the probe's await returns and health_handler answers
ProbeCompletes(q) ==
    /\ pc = "serving"
    /\ queries[q] = "probing"
    /\ \E behaviour \in BackendBehaviours :
         response' = Some([behaviour |-> behaviour,
                           reply |-> health_handler(app_state.value, behaviour),
                           before |-> StatusBefore])
    /\ queries' = [queries EXCEPT ![q] = "idle"]
    /\ UNCHANGED <<pc, exit_code, env, key_file, registry_url, owner, node_type,
                   connection, local_ip, nostr_pubkey, workflow, check_response,
                   register_response, requests, app_state>>
    /\ UNCHANGED other_vars

Next ==
    \/ ReadConfig
    \/ LoadOrCreateKeypair
    \/ SendCheck
    \/ CheckResponds
    \/ SendRegister
    \/ RegisterResponds
    \/ StartServer
    \/ \E q \in 1..MaxQueries : HealthQuery(q)
    \/ \E q \in 1..MaxQueries : ProbeCompletes(q)

Spec == Init /\ [][Next]_vars

----------------------------------------------------------------------------
(* main() up to the listener, next to any backend *)

\* the first start of the sidecar, next to a backend in any condition
InitStartup ==
    /\ InitMain
    /\ earlier_runs = <<>>
    /\ startup_backend \in StartupBackends
    /\ WhitelistOff
    /\ RoundTripOff

\* the steps of main() before it serves
NextStartup ==
    \/ ReadConfig
    \/ LoadOrCreateKeypair
    \/ SendCheck
    \/ CheckResponds
    \/ SendRegister
    \/ RegisterResponds
    \/ StartServer

SpecStartup == InitStartup /\ [][NextStartup]_vars

----------------------------------------------------------------------------
(* Restarts of the sidecar on the same data directory *)

\* the process ends, by itself or killed, and is started again with the same
\* environment and the same data directory: main()'s locals are gone, the
\* key file stays
Restart ==
    /\ pc # "off"
    /\ Len(earlier_runs) + 1 < MaxStarts
    /\ earlier_runs' = Append(earlier_runs, [key_file |-> key_file, pubkey |-> nostr_pubkey])
    /\ pc' = "start"
    /\ exit_code' = None
    /\ registry_url' = ""
    /\ owner' = ""
    /\ node_type' = ""
    /\ connection' = [kind |-> "unset"]
    /\ local_ip' = None
    /\ nostr_pubkey' = ""
    /\ workflow' = "Unknown"
    /\ check_response' = None
    /\ register_response' = None
    /\ requests' = <<>>
    /\ app_state' = None
    /\ queries' = [q \in 1..MaxQueries |-> "idle"]
    /\ response' = None
    /\ UNCHANGED <<env, key_file, startup_backend, wl_vars, rt>>

NextRestart ==
    \/ NextStartup
    \/ Restart

SpecRestart == Init /\ [][NextRestart]_vars

----------------------------------------------------------------------------
(* main() up to the listener, with every step taken that can be taken *)

\* main() is one task that runs without waiting for anything but the two
\* registry calls; the runs considered are those in which each of the two
\* calls returns, with a response or with an error (the client has no
\* timeout of its own, so a registry that never answers is left out here)
SpecRegistration ==
    /\ Init
    /\ [][NextStartup]_vars
    /\ WF_vars(ReadConfig)
    /\ WF_vars(LoadOrCreateKeypair)
    /\ WF_vars(SendCheck)
    /\ WF_vars(CheckResponds)
    /\ WF_vars(SendRegister)
    /\ WF_vars(RegisterResponds)
    /\ WF_vars(StartServer)

----------------------------------------------------------------------------
(* serde_json, for the types that derive both Serialize and Deserialize:    *)
(* BackendInfo (main.rs) and Whitelist (whitelist_service.rs).  JSON text   *)
(* is modelled by its syntax tree; the text between the quotes of a JSON    *)
(* string is modelled character by character.                               *)

\* the sidecar binary is not running
MainOff ==
    /\ pc = "off"
    /\ exit_code = None
    /\ env = BaseEnv
    /\ key_file = None
    /\ registry_url = ""
    /\ owner = ""
    /\ node_type = ""
    /\ connection = [kind |-> "unset"]
    /\ local_ip = None
    /\ nostr_pubkey = ""
    /\ workflow = "Unknown"
    /\ check_response = None
    /\ register_response = None
    /\ requests = <<>>
    /\ app_state = None
    /\ queries = [q \in 1..MaxQueries |-> "idle"]
    /\ response = None
    /\ earlier_runs = <<>>
    /\ startup_backend = [outage |-> 0, doc |-> [gpus |-> <<>>, allow_attach_all |-> TRUE]]

\* the i-th public key of the samples
KeyName(i) == "npub1" \o ToString(i)

\* public keys a pubkeys set is drawn from
SamplePubkeys == {KeyName(i) : i \in 1..MaxPubkeys}

\* String contents: empty, plain, with quotes, with a backslash
SampleStrings == {"", "Error: HTTP error: 404 Not Found", "{\"gpu_count\":0}", "C:\\run"}

\* serde_json's writing of a str: quotes and backslashes get a backslash
RECURSIVE Escape(_)
Escape(str) ==
    IF str = "" THEN ""
    ELSE LET c == SubSeq(str, 1, 1)
             rest == SubSeq(str, 2, Len(str))
         IN  IF c = "\"" \/ c = "\\"
             THEN "\\" \o c \o Escape(rest)
             ELSE c \o Escape(rest)

\* serde_json's reading of a string: the character after a backslash is taken
\* as it stands
RECURSIVE Unescape(_)
Unescape(text) ==
    IF text = "" THEN ""
    ELSE LET c == SubSeq(text, 1, 1)
         IN  IF c = "\\" /\ Len(text) >= 2
             THEN SubSeq(text, 2, 2) \o Unescape(SubSeq(text, 3, Len(text)))
             ELSE c \o Unescape(SubSeq(text, 2, Len(text)))

JNull == [t |-> "null"]
JString(str) == [t |-> "string", text |-> Escape(str)]
JArray(items) == [t |-> "array", items |-> items]
JObject(fields) == [t |-> "object", fields |-> fields]

\* the orders in which a HashSet can hand out its elements
Orders(set) ==
    {order \in [1..Cardinality(set) -> set] : {order[i] : i \in DOMAIN order} = set}

\* Serialize of HashSet<String>: serialize_seq over the set's iteration order
SerializeSet(order) == JArray([i \in DOMAIN order |-> JString(order[i])])

\* Deserialize of HashSet<String>: every element of the array is inserted
DeserializeSet(j) ==
    IF j.t # "array" THEN Err("invalid type, expected a sequence")
    ELSE IF \E i \in DOMAIN j.items : j.items[i].t # "string"
         THEN Err("invalid type, expected a string")
         ELSE Ok({Unescape(j.items[i].text) : i \in DOMAIN j.items})

\* Serialize of Option<String>: None is null
SerializeOption(opt) == IF opt.some THEN JString(opt.value) ELSE JNull

\* Deserialize of Option<String>
DeserializeOption(j) ==
    IF j.t = "null" THEN Ok(None)
    ELSE IF j.t = "string" THEN Ok(Some(Unescape(j.text)))
    ELSE Err("invalid type, expected a string")

\* Deserialize of String
DeserializeString(j) ==
    IF j.t = "string" THEN Ok(Unescape(j.text))
    ELSE Err("invalid type, expected a string")

\* a Serialize that writes the enum's i32 discriminant
SerializeStatus_AsDiscriminant(status) ==
    JString(IF status = "Available" THEN "1" ELSE "2")

\* derive(Serialize) on the unit variants of DephyWorkerRespondedStatus: the
\* variant's name
SerializeStatus(status) ==
    JString(CASE status = "Available" -> "Available"
              [] status = "Unavailable" -> "Unavailable")

\* derive(Deserialize) on DephyWorkerRespondedStatus
DeserializeStatus(j) ==
    IF j.t # "string" THEN Err("invalid type, expected a variant")
    ELSE IF Unescape(j.text) \in {"Available", "Unavailable"} THEN Ok(Unescape(j.text))
    ELSE Err("unknown variant")

\* derive(Serialize) on BackendInfo; order is the iteration order of pubkeys
SerializeBackendInfo(info, order) ==
    JObject([version |-> JString(info.version),
             topic |-> JString(info.topic),
             pubkeys |-> SerializeSet(order),
             status |-> SerializeStatus(info.status),
             metadata |-> SerializeOption(info.metadata),
             ip_address |-> SerializeOption(info.ip_address)])

\* derive(Deserialize) on BackendInfo: a missing Option field is None, any
\* other missing field is an error
DeserializeBackendInfo(j) ==
    IF j.t # "object" THEN Err("invalid type, expected struct BackendInfo")
    ELSE IF ~({"version", "topic", "pubkeys", "status"} \subseteq DOMAIN j.fields)
         THEN Err("missing field")
         ELSE LET f == j.fields
                  version == DeserializeString(f.version)
                  topic == DeserializeString(f.topic)
                  pubkeys == DeserializeSet(f.pubkeys)
                  status == DeserializeStatus(f.status)
                  metadata == IF "metadata" \in DOMAIN f
                              THEN DeserializeOption(f.metadata) ELSE Ok(None)
                  ip_address == IF "ip_address" \in DOMAIN f
                                THEN DeserializeOption(f.ip_address) ELSE Ok(None)
              IN  IF /\ version.ok /\ topic.ok /\ pubkeys.ok
                     /\ status.ok /\ metadata.ok /\ ip_address.ok
                  THEN Ok([version |-> version.value,
                           topic |-> topic.value,
                           pubkeys |-> pubkeys.value,
                           status |-> status.value,
                           metadata |-> metadata.value,
                           ip_address |-> ip_address.value])
                  ELSE Err("invalid BackendInfo")

\* derive(Serialize) on Whitelist
SerializeWhitelist(wl, order) == JObject([pubkeys |-> SerializeSet(order)])

\* derive(Deserialize) on Whitelist
DeserializeWhitelist(j) ==
    IF j.t # "object" THEN Err("invalid type, expected struct Whitelist")
    ELSE IF "pubkeys" \notin DOMAIN j.fields THEN Err("missing field pubkeys")
    ELSE IF DeserializeSet(j.fields.pubkeys).ok
         THEN Ok([pubkeys |-> DeserializeSet(j.fields.pubkeys).value])
         ELSE Err("invalid Whitelist")

\* the BackendInfo values of the round trip
BackendInfos ==
    [version : {"1.0.0"},
     topic : {"dstack-gpu-monitor"},
     pubkeys : SUBSET SamplePubkeys,
     status : {"Available", "Unavailable"},
     metadata : {None} \cup {Some(str) : str \in SampleStrings},
     ip_address : LocalIps]

\* the Whitelist values of the round trip
Whitelists == [pubkeys : SUBSET SamplePubkeys]

\* a value of one of the two types is about to be serialized
InitRoundTrip ==
    /\ MainOff
    /\ WhitelistOff
    /\ rt \in {[pc |-> "value", type |-> "BackendInfo", value |-> v] : v \in BackendInfos}
         \cup {[pc |-> "value", type |-> "Whitelist", value |-> v] : v \in Whitelists}

\* serde_json::to_string / to_string_pretty / axum's Json(..) response
ToJson ==
    /\ rt.pc = "value"
    /\ \E order \in Orders(rt.value.pubkeys) :
         rt' = [pc |-> "wire", type |-> rt.type, value |-> rt.value,
                wire |-> IF rt.type = "BackendInfo"
                         THEN SerializeBackendInfo(rt.value, order)
                         ELSE SerializeWhitelist(rt.value, order)]
    /\ UNCHANGED <<main_vars, earlier_runs, startup_backend, wl_vars>>

\* serde_json::from_str
FromJson ==
    /\ rt.pc = "wire"
    /\ rt' = [pc |-> "back", type |-> rt.type, value |-> rt.value, wire |-> rt.wire,
              back |-> IF rt.type = "BackendInfo"
                       THEN DeserializeBackendInfo(rt.wire)
                       ELSE DeserializeWhitelist(rt.wire)]
    /\ UNCHANGED <<main_vars, earlier_runs, startup_backend, wl_vars>>

NextRoundTrip ==
    \/ ToJson
    \/ FromJson

SpecRoundTrip == InitRoundTrip /\ [][NextRoundTrip]_vars

----------------------------------------------------------------------------
(* The whitelist_service binary (src/bin/whitelist_service.rs) *)

\* contents WHITELIST_FILE can have before the service starts: no file, text
\* that is not JSON, JSON of another shape, a saved Whitelist, and a
\* hand-written list that names a key twice
WhitelistFiles ==
    {None, Some([t |-> "garbage"]), Some(JObject([pubkeys |-> JNull]))}
    \cup UNION {{Some(SerializeWhitelist(wl, order)) : order \in Orders(wl.pubkeys)} :
                   wl \in Whitelists}
    \cup {Some(JObject([pubkeys |-> JArray(<<JString(KeyName(1)), JString(KeyName(1))>>)]))}

\* serde_json::from_str::<Whitelist>
FromStrWhitelist(content) ==
    IF content.t = "garbage" THEN Err("expected value at line 1 column 1")
    ELSE DeserializeWhitelist(content)

\* LISTEN_ADDR of the service: unset, or not a socket address
WhitelistListenAddrs == {None, Some("localhost")}

DefaultWhitelistListenAddr == "0.0.0.0:8082"

\* the pubkey parameter of a request to /api/whitelist: absent, or any key
WhitelistQueries == {None, Some("npub1x")} \cup {Some(k) : k \in SamplePubkeys}

\* a handler that answers true for every key
whitelist_handler_AlwaysListed(pubkeys, pubkey) ==
    [is_whitelisted |-> TRUE, pubkey |-> pubkey]

\* whitelist_handler: the WhitelistResponse it returns
whitelist_handler(pubkeys, pubkey) ==
    [is_whitelisted |-> pubkey \in pubkeys, pubkey |-> pubkey]

\* the service's process at its first instruction
InitWhitelist ==
    /\ MainOff
    /\ RoundTripOff
    /\ wl_pc = "start"
    /\ whitelist_file \in WhitelistFiles
    /\ whitelist = {}
    /\ wl_created = FALSE
    /\ wl_response = None

\* load_whitelist and main's expect() on it; fs_ok is whether the file
\* system calls succeed
LoadWhitelist ==
    /\ wl_pc = "start"
    /\ \E fs_ok \in BOOLEAN :
         IF whitelist_file.some
         THEN /\ IF fs_ok /\ FromStrWhitelist(whitelist_file.value).ok
                 THEN /\ whitelist' = FromStrWhitelist(whitelist_file.value).value.pubkeys
                      /\ wl_pc' = "bind"
                 ELSE /\ wl_pc' = "panicked"
                      /\ UNCHANGED whitelist
              /\ UNCHANGED <<whitelist_file, wl_created>>
         ELSE IF fs_ok
              THEN /\ whitelist_file' = Some(SerializeWhitelist([pubkeys |-> {}], <<>>))
                   /\ whitelist' = {}
                   /\ wl_created' = TRUE
                   /\ wl_pc' = "bind"
              ELSE /\ wl_pc' = "panicked"
                   /\ UNCHANGED <<whitelist_file, whitelist, wl_created>>
    /\ UNCHANGED <<main_vars, earlier_runs, startup_backend, wl_response, rt>>

\* the router, the parse of the listen address and the bind
StartWhitelistServer ==
    /\ wl_pc = "bind"
    /\ \E listen_addr \in WhitelistListenAddrs, bind_ok \in BOOLEAN :
         IF ParseSocketAddr(UnwrapOr(listen_addr, DefaultWhitelistListenAddr)).ok /\ bind_ok
         THEN wl_pc' = "serving"
         ELSE wl_pc' = "panicked"
    /\ UNCHANGED <<main_vars, earlier_runs, startup_backend, whitelist_file,
                   whitelist, wl_created, wl_response, rt>>

\* GET /api/whitelist: axum's Query extractor, which answers 400 itself when
\* the pubkey parameter is missing, and then whitelist_handler
WhitelistLookup ==
    /\ wl_pc = "serving"
    /\ \E query \in WhitelistQueries :
         wl_response' =
             IF query.some
             THEN Some([route |-> "/api/whitelist", query |-> query, status_code |-> 200,
                        body |-> whitelist_handler(whitelist, query.value)])
             ELSE Some([route |-> "/api/whitelist", query |-> query, status_code |-> 400,
                        body |-> [rejection |-> "Failed to deserialize query string"]])
    /\ UNCHANGED <<main_vars, earlier_runs, startup_backend, wl_pc, whitelist_file,
                   whitelist, wl_created, rt>>

\* GET /api/list: list_handler
WhitelistList ==
    /\ wl_pc = "serving"
    /\ \E order \in Orders(whitelist) :
         wl_response' = Some([route |-> "/api/list", query |-> None, status_code |-> 200,
                              body |-> SerializeWhitelist([pubkeys |-> whitelist], order)])
    /\ UNCHANGED <<main_vars, earlier_runs, startup_backend, wl_pc, whitelist_file,
                   whitelist, wl_created, rt>>

\* GET / and GET /health: root_handler and health_handler of the service
WhitelistStatic ==
    /\ wl_pc = "serving"
    /\ \E page \in {[route |-> "/", text |-> "Whitelist Service - Centralized Pubkey Verification"],
                    [route |-> "/health", text |-> "OK"]} :
         wl_response' = Some([route |-> page.route, query |-> None, status_code |-> 200,
                              body |-> [text |-> page.text]])
    /\ UNCHANGED <<main_vars, earlier_runs, startup_backend, wl_pc, whitelist_file,
                   whitelist, wl_created, rt>>

NextWhitelist ==
    \/ LoadWhitelist
    \/ StartWhitelistServer
    \/ WhitelistLookup
    \/ WhitelistList
    \/ WhitelistStatic

SpecWhitelist == InitWhitelist /\ [][NextWhitelist]_vars

----------------------------------------------------------------------------
(* Vocabulary of the properties, stated on the inputs and not through the   *)
(* operators that model the code                                            *)

Is2xx(code) == code \in 200..299

\* number of POSTs sent to the registry so far
PostCount == Cardinality({i \in DOMAIN requests : requests[i].method = "POST"})

\* the body is JSON with write.mode = "AllowAll"
SaysAllowAll(body) ==
    /\ body.kind = "json"
    /\ "write" \in DOMAIN body.doc
    /\ body.doc.write.mode = "AllowAll"

\* the check GET got a 2xx response that parses with write.mode = "AllowAll"
CheckConfirmed ==
    /\ check_response.some
    /\ check_response.value.kind = "response"
    /\ Is2xx(check_response.value.status)
    /\ SaysAllowAll(check_response.value.body)

\* the registry answered the check GET and the answer does not confirm
CheckUnconfirmed ==
    /\ check_response.some
    /\ check_response.value.kind = "response"
    /\ \/ ~Is2xx(check_response.value.status)
       \/ ~SaysAllowAll(check_response.value.body)

\* the check GET failed at the network level
CheckUnreachable ==
    /\ check_response.some
    /\ check_response.value.kind = "unreachable"

\* the POST got a 2xx response
RegisterAccepted ==
    /\ register_response.some
    /\ register_response.value.kind = "response"
    /\ Is2xx(register_response.value.status)

\* the POST got a non-2xx response or failed at the network level
RegisterRefused ==
    /\ register_response.some
    /\ \/ register_response.value.kind = "unreachable"
       \/ ~Is2xx(register_response.value.status)

\* C1: a check answered 2xx with write.mode = "AllowAll" ends the workflow in
\* AlreadyRegistered, main goes on past it, and no POST is ever sent
C1_AllowAllSkipsRegister ==
    CheckConfirmed =>
        /\ workflow = "AlreadyRegistered"
        /\ pc \notin {"ensure_registered", "exited"}
        /\ exit_code # Some(1)
        /\ PostCount = 0
        /\ ~register_response.some

\* a run that was confirmed by a 201 and reached serving
C1_Witness ==
    /\ CheckConfirmed
    /\ check_response.value.status = 201
    /\ pc = "serving"

\* C2: when the registry answered the check without confirming, the run sends
\* exactly one POST: none was sent before, it is sent from NeedsRegistration,
\* and the workflow ends (in Done or FatalFailure) with exactly one sent
C2_UnconfirmedPostsOnce ==
    CheckUnconfirmed =>
        /\ workflow \in {"NeedsRegistration", "Registering", "Done", "FatalFailure"}
        /\ PostCount = (IF workflow = "NeedsRegistration" THEN 0 ELSE 1)
        /\ pc # "ensure_registered" => workflow \in {"Done", "FatalFailure"}
        /\ register_response.some => workflow \in {"Done", "FatalFailure"}

\* an unparseable 2xx answer, and the POST that followed was refused
C2_Witness ==
    /\ CheckUnconfirmed
    /\ Is2xx(check_response.value.status)
    /\ check_response.value.body.kind = "malformed"
    /\ workflow = "FatalFailure"
    /\ PostCount = 1

\* C3: a check that fails at the network level does not end the workflow and
\* is no failure of it: one POST is sent, and the workflow ends in Done
\* exactly when that POST is accepted, in FatalFailure exactly when it is not
C3_FailOpenCheck ==
    CheckUnreachable =>
        /\ workflow \in {"CheckFailed", "Registering", "Done", "FatalFailure"}
        /\ PostCount = (IF workflow = "CheckFailed" THEN 0 ELSE 1)
        /\ workflow = "Done" <=> RegisterAccepted
        /\ workflow = "FatalFailure" <=> RegisterRefused
        /\ pc = "exited" <=> RegisterRefused
        /\ pc # "ensure_registered" => register_response.some

\* the check failed at the network level, the POST was accepted, and the
\* service serves
C3_Witness ==
    /\ CheckUnreachable
    /\ RegisterAccepted
    /\ workflow = "Done"
    /\ pc = "serving"

\* C4: a refused POST ends the workflow in FatalFailure with that one POST
\* sent, the process has exited with a non-zero status, and nothing of the
\* serving state exists: no AppState, no health query, no response
C4_FailFatalRegister ==
    RegisterRefused =>
        /\ workflow = "FatalFailure"
        /\ PostCount = 1
        /\ pc = "exited"
        /\ exit_code.some /\ exit_code.value # 0
        /\ ~app_state.some
        /\ \A q \in DOMAIN queries : queries[q] = "idle"
        /\ ~response.some

\* the POST was answered 500
C4_Witness ==
    /\ RegisterRefused
    /\ register_response.value.kind = "response"
    /\ register_response.value.status = 500
    /\ pc = "exited"

\* C5 as claimed: once the check did not confirm and the POST got a 2xx, the
\* workflow is in Done, the process has not ended and is serving or about to
C5_AcceptedNeverExits ==
    (~CheckConfirmed /\ RegisterAccepted) =>
        /\ workflow = "Done"
        /\ exit_code = None
        /\ pc \in {"bind", "serving"}

\* C5, amended: once the check did not confirm and the POST got a 2xx, the
\* workflow is in Done and the process is never ended by exit(1); main goes on
\* to build the server and serves health queries, unless the listen address
\* does not parse or bind and main panics there
C5_AcceptedGoesOnToServe ==
    (~CheckConfirmed /\ RegisterAccepted) =>
        /\ workflow = "Done"
        /\ exit_code # Some(1)
        /\ pc \in {"bind", "serving", "panicked"}
        /\ pc = "panicked" => (app_state.some /\ ~response.some)
        /\ pc = "serving" => app_state.some

\* check answered 404, POST answered 201, and a health query was answered
C5_Witness ==
    /\ check_response.some
    /\ check_response.value.kind = "response"
    /\ check_response.value.status = 404
    /\ RegisterAccepted
    /\ register_response.value.status = 201
    /\ pc = "serving"
    /\ response.some

\* the probe got a 2xx response whose body is an inventory document
ProbeSucceeded(behaviour) ==
    /\ behaviour.kind = "response"
    /\ Is2xx(behaviour.status)
    /\ behaviour.body \in InventoryBodies

\* the identifier of the local node: the public key of the key in the key file
LocalIdentity == PublicKeyHex(key_file.value)

\* C6: every answered health query reports Available exactly when its probe
\* got a 2xx response with a decodable inventory, and Unavailable otherwise
C6_AvailableIffProbeSucceeded ==
    response.some =>
        LET status == response.value.reply.body.status
        IN  /\ status \in {"Available", "Unavailable"}
            /\ status = "Available" <=> ProbeSucceeded(response.value.behaviour)

\* an error status that carries a decodable inventory: reported Unavailable
C6_Witness ==
    /\ response.some
    /\ response.value.behaviour.kind = "response"
    /\ ~Is2xx(response.value.behaviour.status)
    /\ response.value.behaviour.body.kind = "json"
    /\ response.value.reply.body.status = "Unavailable"

\* C7: every report, of a successful probe or a failed one, names exactly the
\* local node's public key
C7_PubkeysIsLocalIdentity ==
    response.some =>
        /\ response.value.reply.body.pubkeys = {LocalIdentity}
        /\ response.value.reply.body.pubkeys = {nostr_pubkey}
        /\ Cardinality(response.value.reply.body.pubkeys) = 1

\* a report of a failed probe, on a node whose key this run generated
C7_Witness ==
    /\ response.some
    /\ ~ProbeSucceeded(response.value.behaviour)
    /\ LocalIdentity = "b0b0000000000002"
    /\ response.value.reply.body.pubkeys = {"b0b0000000000002"}

\* C8: on a successful probe the metadata is the JSON of the inventory:
\* gpu_count is the number of records, gpus repeats them in order with their
\* four fields, allow_attach_all is the response's flag
C8_MetadataDescribesInventory ==
    (response.some /\ ProbeSucceeded(response.value.behaviour)) =>
        LET doc == response.value.behaviour.body.doc
            metadata == response.value.reply.body.metadata
        IN  /\ metadata.some
            /\ DOMAIN metadata.value = {"json"}
            /\ metadata.value.json.gpu_count = Len(doc.gpus)
            /\ Len(metadata.value.json.gpus) = Len(doc.gpus)
            /\ \A i \in 1..Len(doc.gpus) :
                 /\ metadata.value.json.gpus[i].slot = doc.gpus[i].slot
                 /\ metadata.value.json.gpus[i].product_id = doc.gpus[i].product_id
                 /\ metadata.value.json.gpus[i].description = doc.gpus[i].description
                 /\ metadata.value.json.gpus[i].is_free = doc.gpus[i].is_free
            /\ metadata.value.json.allow_attach_all = doc.allow_attach_all

\* an inventory of two different GPUs, the busy one first
C8_Witness ==
    /\ response.some
    /\ ProbeSucceeded(response.value.behaviour)
    /\ Len(response.value.behaviour.body.doc.gpus) = 2
    /\ ~response.value.behaviour.body.doc.gpus[1].is_free
    /\ response.value.behaviour.body.doc.gpus[2].is_free
    /\ response.value.reply.body.metadata.value.json.gpu_count = 2

\* C9: the HTTP status of the answer is 200 exactly when the report says
\* Available and 503 exactly when it says Unavailable, and in both cases the
\* body is the whole report with its six fields
C9_StatusCodeFollowsStatus ==
    response.some =>
        LET reply == response.value.reply
        IN  /\ reply.status_code = 200 <=> reply.body.status = "Available"
            /\ reply.status_code = 503 <=> reply.body.status = "Unavailable"
            /\ reply.status_code \in {200, 503}
            /\ DOMAIN reply.body =
                 {"version", "topic", "pubkeys", "status", "metadata", "ip_address"}
            /\ reply.body.metadata.some
            /\ reply.body = check_dstack_health(app_state.value, response.value.behaviour)

\* a 503 answer whose body is an Unavailable report
C9_Witness ==
    /\ response.some
    /\ response.value.reply.status_code = 503
    /\ response.value.reply.body.status = "Unavailable"

\* s has sub as a substring
Contains(s, sub) ==
    \E i \in 1..(Len(s) - Len(sub) + 1) : SubSeq(s, i, i + Len(sub) - 1) = sub

\* the three digits of a status code
CodeDigits(code) ==
    CASE code = 404 -> "404"
      [] code = 503 -> "503"

\* how a probe failed, read off what the backend did: no response at all, a
\* response with a non-2xx status, or a 2xx response whose body cannot be
\* read or does not decode
FailureCategory(behaviour) ==
    IF behaviour.kind = "unreachable" THEN "connection"
    ELSE IF ~Is2xx(behaviour.status) THEN "http_status"
    ELSE "body"

\* the message texts the claim names for each category
ClaimedText(behaviour) ==
    CASE FailureCategory(behaviour) = "connection" -> "Connection error: "
      [] FailureCategory(behaviour) = "http_status" ->
             "HTTP error: " \o CodeDigits(behaviour.status)
      [] FailureCategory(behaviour) = "body" -> "Parse error: "

\* the message prefixes fetch_dstack_data uses for each category
CategoryPrefixes(category) ==
    CASE category = "connection" -> {"HTTP request failed: ", "Unix socket request failed: "}
      [] category = "http_status" -> {"HTTP error: "}
      [] category = "body" -> {"Failed to parse JSON: ", "Failed to read response body: "}

\* C10 as claimed: on a failed probe the report is Unavailable and its
\* metadata is a string that embeds "HTTP error: <code>", "Connection
\* error: " or "Parse error: " according to the failure
C10_ClaimedErrorTexts ==
    (response.some /\ ~ProbeSucceeded(response.value.behaviour)) =>
        LET report == response.value.reply.body
        IN  /\ report.status = "Unavailable"
            /\ report.metadata.some
            /\ DOMAIN report.metadata.value = {"text"}
            /\ Contains(report.metadata.value.text, ClaimedText(response.value.behaviour))

\* C10, amended: on a failed probe the report is Unavailable and its metadata
\* is the string "Error: " followed by fetch_dstack_data's message, which
\* starts with "HTTP error: <code>" for a non-2xx status, with "HTTP request
\* failed: " or "Unix socket request failed: " for a connection failure, and
\* with "Failed to parse JSON: " or "Failed to read response body: " for a
\* body that cannot be read or decoded; no message starts with the prefix of
\* another category, so the three stay distinguishable
C10_ErrorTextsByCategory ==
    (response.some /\ ~ProbeSucceeded(response.value.behaviour)) =>
        LET report == response.value.reply.body
            behaviour == response.value.behaviour
        IN  /\ report.status = "Unavailable"
            /\ report.metadata.some
            /\ DOMAIN report.metadata.value = {"text"}
            /\ \A category \in {"connection", "http_status", "body"} :
                 (category = FailureCategory(behaviour)) <=>
                     \E prefix \in CategoryPrefixes(category) :
                         StartsWith(report.metadata.value.text, "Error: " \o prefix)
            /\ FailureCategory(behaviour) = "http_status" =>
                 StartsWith(report.metadata.value.text,
                            "Error: HTTP error: " \o CodeDigits(behaviour.status))

\* a 2xx answer over the Unix socket whose body does not decode
C10_Witness ==
    /\ response.some
    /\ app_state.value.connection.kind = "UnixSocket"
    /\ FailureCategory(response.value.behaviour) = "body"
    /\ response.value.behaviour.body.kind = "malformed"
    /\ response.value.reply.body.metadata.value =
           [text |-> "Error: Failed to parse JSON: expected value at line 1 column 1"]

----------------------------------------------------------------------------
(* The serving state *)

\* a BackendInfo with every field filled in the way a client can parse
WellFormedReport(report) ==
    /\ DOMAIN report = {"version", "topic", "pubkeys", "status", "metadata", "ip_address"}
    /\ report.version = "1.0.0"
    /\ report.topic = "dstack-gpu-monitor"
    /\ report.status \in {"Available", "Unavailable"}
    /\ report.pubkeys # {}
    /\ report.metadata.some
    /\ report.ip_address \in LocalIps

\* C11: once the service is serving, every step keeps the process serving
\* with no exit status, and every health query whose probe returns, with an
\* inventory or with any failure, is answered at that step with a well-formed
\* report
C11_ServingAlwaysAnswers ==
    [][pc = "serving" =>
         /\ pc' = "serving"
         /\ exit_code' = None
         /\ \A q \in 1..MaxQueries :
              (queries[q] = "probing" /\ queries'[q] = "idle") =>
                  /\ response'.some
                  /\ WellFormedReport(response'.value.reply.body)
                  /\ response'.value.reply.status_code \in {200, 503}]_vars

\* the registry was unreachable at startup, the backend is unreachable now,
\* and the query was answered by a process that is still serving
C11_Witness ==
    /\ pc = "serving"
    /\ exit_code = None
    /\ check_response.some
    /\ check_response.value.kind = "unreachable"
    /\ response.some
    /\ response.value.behaviour.kind = "unreachable"
    /\ WellFormedReport(response.value.reply.body)
    /\ \A q \in 1..MaxQueries : queries[q] = "idle"

----------------------------------------------------------------------------
(* The node type main() registers with *)

\* the GPU model a description is said to name: H200 before H100 before B200
ClaimedModel(description) ==
    IF Contains(description, "H200") THEN Some("H200")
    ELSE IF Contains(description, "H100") THEN Some("H100")
    ELSE IF Contains(description, "B200") THEN Some("B200")
    ELSE None

\* the node type said to follow from an inventory
ClaimedNodeType(doc) ==
    IF Len(doc.gpus) = 0 THEN "CPU"
    ELSE IF ClaimedModel(doc.gpus[1].description).some
         THEN "node-" \o ClaimedModel(doc.gpus[1].description).value
                      \o "x" \o ToString(Len(doc.gpus))
         ELSE "Unknown"

\* main() has computed its node_type
NodeTypeResolved == pc \in {"load_keys", "ensure_registered", "bind", "serving", "exited"}

\* the node types main() has sent to the registry
RegisteredNodeTypes ==
    {requests[i].body.value.node_type :
        i \in {j \in DOMAIN requests : requests[j].method = "POST"}}

\* C12: when the backend answers the first connection with an inventory of
\* zero GPUs, the node type main() holds and registers with is "CPU"
C12_ZeroGpusIsCpu ==
    (/\ startup_backend.outage = 0
     /\ Len(startup_backend.doc.gpus) = 0
     /\ NodeTypeResolved)
    => /\ node_type = "CPU"
       /\ RegisteredNodeTypes \subseteq {"CPU"}

\* C13: when the backend answers, within five connections, with an inventory
\* of one GPU or more, the node type main() holds and registers with is the
\* one read off the first GPU's description and the number of GPU records
C13_NodeTypeFromFirstGpu ==
    (/\ startup_backend.outage < 5
     /\ Len(startup_backend.doc.gpus) >= 1
     /\ NodeTypeResolved)
    => /\ node_type = ClaimedNodeType(startup_backend.doc)
       /\ RegisteredNodeTypes \subseteq {ClaimedNodeType(startup_backend.doc)}

\* C14: when the backend refuses five connections in a row, the node type
\* main() holds and registers with is "Unknown", and main() does not end for
\* that reason
C14_UnreachableIsUnknown ==
    (/\ startup_backend.outage >= 5
     /\ NodeTypeResolved)
    => /\ node_type = "Unknown"
       /\ RegisteredNodeTypes \subseteq {"Unknown"}
       /\ pc # "panicked"

----------------------------------------------------------------------------
(* The connection to the backend *)

\* the URL string as configured: DSTACK_URL, else DSTACK_BACKEND_DSTACK_URL,
\* else the default
ConfiguredUrl ==
    IF env.DSTACK_URL.some THEN env.DSTACK_URL.value
    ELSE IF env.DSTACK_BACKEND_DSTACK_URL.some THEN env.DSTACK_BACKEND_DSTACK_URL.value
    ELSE "http://localhost:19060"

\* the endpoint the rule of the claim selects for the string url
EndpointOf(url) ==
    IF StartsWith(url, "unix://")
    THEN [kind |-> "UnixSocket", socket_path |-> SubSeq(url, 8, Len(url))]
    ELSE [kind |-> "Http", url |-> url]

\* main() has chosen its connection
ConnectionChosen == connection.kind # "unset"

\* C15 as stated: in every state after the choice, main()'s connection and
\* the one the handlers share are the endpoint of the configured string taken
\* as it stands
C15_EndpointOfRawUrl ==
    /\ ConnectionChosen => connection = EndpointOf(ConfiguredUrl)
    /\ app_state.some => app_state.value.connection = EndpointOf(ConfiguredUrl)

\* C15: in every state after the choice, whatever registry answers and
\* probes came in between, main()'s connection and the one the handlers
\* share are the endpoint of the configured string with the white space at
\* its two ends removed; nothing but that string enters the choice
C15_EndpointOfTrimmedUrl ==
    /\ ConnectionChosen => connection = EndpointOf(Trim(ConfiguredUrl))
    /\ app_state.some => app_state.value.connection = EndpointOf(Trim(ConfiguredUrl))
    /\ ~ConnectionChosen => pc \in {"start", "panicked"}

\* a socket URL configured with blanks around it, still UnixSocket after a
\* failed probe of a serving process
C15_Witness ==
    /\ pc = "serving"
    /\ Trim(ConfiguredUrl) # ConfiguredUrl
    /\ StartsWith(Trim(ConfiguredUrl), "unix://")
    /\ app_state.value.connection.kind = "UnixSocket"
    /\ app_state.value.connection.socket_path = "/var/run/dstack.sock"
    /\ response.some
    /\ ~ProbeSucceeded(response.value.behaviour)

----------------------------------------------------------------------------
(* JSON round trip *)

----------------------------------------------------------------------------
(* The key file across restarts *)

----------------------------------------------------------------------------
(* The whitelist service *)

\* the keys named in the whitelist file
FilePubkeys ==
    {whitelist_file.value.fields.pubkeys.items[i].text :
        i \in DOMAIN whitelist_file.value.fields.pubkeys.items}

\* C18: every lookup of a pubkey is answered with status 200 and a body that
\* repeats the pubkey and says is_whitelisted exactly when the pubkey is one
\* of those the file named at startup; and the set a serving process holds is
\* still that set, whatever has been asked
C18_LookupIsMembership ==
    /\ wl_pc = "serving" => whitelist = FilePubkeys
    /\ (/\ wl_response.some
        /\ wl_response.value.route = "/api/whitelist"
        /\ wl_response.value.query.some)
       => /\ wl_response.value.status_code = 200
          /\ wl_response.value.body.pubkey = wl_response.value.query.value
          /\ wl_response.value.body.is_whitelisted
                <=> wl_response.value.query.value \in FilePubkeys

\* a key that is not listed was looked up in a whitelist that lists another
C18_Witness ==
    /\ wl_pc = "serving"
    /\ whitelist = {"npub11"}
    /\ wl_response.some
    /\ wl_response.value.route = "/api/whitelist"
    /\ wl_response.value.query = Some("npub12")
    /\ wl_response.value.status_code = 200
    /\ wl_response.value.body = [is_whitelisted |-> FALSE, pubkey |-> "npub12"]

\* C19: once the sidecar, started where no whitelist file was, is serving,
\* there is a whitelist file, and the keys it names are the node's own public
\* key and no other
C19_StartCreatesWhitelist ==
    pc = "serving" =>
        /\ whitelist_file.some
        /\ whitelist_file.value.t = "object"
        /\ FilePubkeys = {nostr_pubkey}

----------------------------------------------------------------------------
(* The probe over HTTP *)

\* health queries whose probe is under way
InFlight == {q \in 1..MaxQueries : queries[q] = "probing"}

\* the result the Http probe must have for what the backend did, read off the
\* report made from it: a refused connection gives the request-failure text
\* with the transport's detail; a non-2xx status gives the status text, the
\* same whatever body came with it; a 2xx status with a body that is not an
\* inventory gives the parse-failure text; a 2xx status with an inventory
\* gives the inventory
HttpResultMatches(behaviour, report) ==
    /\ behaviour.kind = "unreachable" =>
         report.metadata = Some([text |-> "Error: HTTP request failed: " \o behaviour.detail])
    /\ (behaviour.kind = "response" /\ ~Is2xx(behaviour.status)) =>
         /\ DOMAIN report.metadata.value = {"text"}
         /\ report.metadata.value.text \in
              {"Error: HTTP error: 404 Not Found", "Error: HTTP error: 503 Service Unavailable"}
         /\ StartsWith(report.metadata.value.text,
                       "Error: HTTP error: " \o CodeDigits(behaviour.status))
    /\ (/\ behaviour.kind = "response"
        /\ Is2xx(behaviour.status)
        /\ behaviour.body \notin InventoryBodies) =>
         /\ DOMAIN report.metadata.value = {"text"}
         /\ StartsWith(report.metadata.value.text, "Error: Failed to parse JSON: ")
    /\ ProbeSucceeded(behaviour) =>
         /\ DOMAIN report.metadata.value = {"json"}
         /\ report.metadata.value.json.gpus = behaviour.body.doc.gpus
    /\ report.status = "Available" <=> ProbeSucceeded(behaviour)

\* C20: over an Http connection, every step at which a probe's outcome
\* arrives ends that probe with the one result that belongs to the outcome,
\* and starts no other request: one probe fewer is under way after the step
C20_HttpOutcomeHasOneResult ==
    [][(/\ app_state.some
        /\ app_state.value.connection.kind = "Http"
        /\ InFlight' # InFlight
        /\ InFlight' \subseteq InFlight)
       => /\ Cardinality(InFlight') = Cardinality(InFlight) - 1
          /\ response'.some
          /\ HttpResultMatches(response'.value.behaviour, response'.value.reply.body)]_vars

\* over Http, a 503 that came with a decodable inventory was reported by its
\* status alone
C20_Witness ==
    /\ response.some
    /\ app_state.value.connection.kind = "Http"
    /\ response.value.behaviour.kind = "response"
    /\ response.value.behaviour.status = 503
    /\ response.value.behaviour.body \in InventoryBodies
    /\ response.value.reply.body.metadata =
           Some([text |-> "Error: HTTP error: 503 Service Unavailable"])
    /\ InFlight = {}

----------------------------------------------------------------------------
(* The two transports *)

\* the class of an error text, by what it begins with
ClassOfPrefix(prefix) ==
    CASE prefix \in {"HTTP request failed: ", "Unix socket request failed: "} -> "connection"
      [] prefix = "HTTP error: " -> "http_status"
      [] prefix \in {"Failed to parse JSON: ", "Failed to read response body: "} -> "body"
      [] prefix = "Failed to build request: " -> "request_construction"

\* the outcome class a report shows: ok, or the class of its error text
OutcomeClass(report) ==
    IF report.status = "Available" THEN {"ok"}
    ELSE {ClassOfPrefix(prefix) :
            prefix \in {p \in HttpErrorPrefixes \cup UnixSocketErrorPrefixes :
                          /\ DOMAIN report.metadata.value = {"text"}
                          /\ StartsWith(report.metadata.value.text, "Error: " \o p)}}

\* the outcome class that belongs to what the backend did, whatever the
\* transport
ExpectedClass(behaviour) ==
    IF ProbeSucceeded(behaviour) THEN "ok" ELSE FailureCategory(behaviour)

\* C21: whichever transport the process uses, the report of a probe shows the
\* one outcome class that belongs to what the backend did, with a text of the
\* transport in use, and on success the inventory the backend sent; the error
\* classes of the UnixSocket arm are those of the Http arm and request
\* construction
C21_TransportsAgree ==
    /\ {ClassOfPrefix(p) : p \in UnixSocketErrorPrefixes}
         = {ClassOfPrefix(p) : p \in HttpErrorPrefixes} \cup {"request_construction"}
    /\ response.some =>
         LET behaviour == response.value.behaviour
             report == response.value.reply.body
         IN  /\ OutcomeClass(report) = {ExpectedClass(behaviour)}
             /\ report.status = "Unavailable" =>
                  \E p \in (IF app_state.value.connection.kind = "Http"
                            THEN HttpErrorPrefixes ELSE UnixSocketErrorPrefixes) :
                      StartsWith(report.metadata.value.text, "Error: " \o p)
             /\ report.status = "Available" =>
                  /\ report.metadata.value.json.gpus = behaviour.body.doc.gpus
                  /\ report.metadata.value.json.allow_attach_all
                       = behaviour.body.doc.allow_attach_all

\* over the Unix socket, a 503 that came with a decodable inventory was
\* reported as a status failure, as over Http
C21_Witness ==
    /\ response.some
    /\ app_state.value.connection.kind = "UnixSocket"
    /\ response.value.behaviour.kind = "response"
    /\ response.value.behaviour.status = 503
    /\ response.value.behaviour.body \in InventoryBodies
    /\ OutcomeClass(response.value.reply.body) = {"http_status"}

----------------------------------------------------------------------------
(* Queries and probes *)

\* C22: a probe is under way only for a health query that has come in and not
\* been answered, one probe for each; a report is made only by the step that
\* ends one of these probes, and it is the report of that probe's outcome,
\* whatever was reported before
C22_OneFreshProbePerQuery ==
    [][/\ pc # "serving" => (InFlight = {} /\ InFlight' = {})
       /\ InFlight' # InFlight =>
            \E q \in 1..MaxQueries : \/ InFlight' = InFlight \cup {q}
                                     \/ InFlight' = InFlight \ {q}
       /\ response' # response =>
            /\ \E q \in InFlight : InFlight' = InFlight \ {q}
            /\ response'.value.reply.body.status = "Available"
                 <=> ProbeSucceeded(response'.value.behaviour)
            /\ ProbeSucceeded(response'.value.behaviour) =>
                 response'.value.reply.body.metadata.value.json.gpus
                    = response'.value.behaviour.body.doc.gpus
       /\ (\E q \in 1..MaxQueries : q \notin InFlight /\ q \in InFlight')
            => response' = response]_vars

\* two queries in a row, the first answered Available and the second
\* Unavailable
C22_Witness ==
    /\ response.some
    /\ response.value.before = "Available"
    /\ response.value.reply.body.status = "Unavailable"
    /\ ~ProbeSucceeded(response.value.behaviour)
    /\ InFlight = {}

\* no request has gone to the backend so far: none is under way and none has
\* been answered
NoProbeSent == response = None /\ InFlight = {}

\* C23: when the backend answers after fewer than five refused connections,
\* main() enters the registration workflow only after it has probed the
\* backend, once for each refusal and once more for the answer
C23_ProbesBeforeRegistration ==
    (/\ startup_backend.outage < 5
     /\ pc \in {"ensure_registered", "bind", "serving", "exited"})
    => ~NoProbeSent

\* C24: once main() has built the state the handlers share, no step changes
\* it, and every report made, with other probes under way or not, has the
\* identity and the address of that state and the status, the inventory or
\* the error text that belong to its own probe's outcome on the shared
\* connection
C24_QueriesShareReadOnlyState ==
    [][/\ app_state.some =>
            /\ app_state' = app_state
            /\ app_state.value = [connection |-> connection,
                                  nostr_pubkey |-> nostr_pubkey,
                                  local_ip |-> local_ip]
       /\ response' # response =>
            LET report == response'.value.reply.body
                behaviour == response'.value.behaviour
            IN  /\ report.pubkeys = {app_state.value.nostr_pubkey}
                /\ report.ip_address = app_state.value.local_ip
                /\ report.status = "Available" <=> ProbeSucceeded(behaviour)
                /\ OutcomeClass(report) = {ExpectedClass(behaviour)}
                /\ ProbeSucceeded(behaviour) =>
                     report.metadata.value.json.gpu_count = Len(behaviour.body.doc.gpus)
                /\ response'.value.reply
                     = health_handler(app_state.value, behaviour)]_vars

\* a good inventory was reported Available while another query's probe is
\* under way, after an Unavailable report
C24_Witness ==
    /\ pc = "serving"
    /\ InFlight # {}
    /\ response.some
    /\ response.value.before = "Unavailable"
    /\ ProbeSucceeded(response.value.behaviour)
    /\ response.value.reply.body.status = "Available"
    /\ app_state.value.nostr_pubkey = nostr_pubkey

----------------------------------------------------------------------------
(* The order of startup *)

\* C25: the first request to the registry is the check GET, so that every
\* POST has a GET before it; whatever belongs to serving (the shared state,
\* a probe, a report) exists only when the workflow has ended in
\* AlreadyRegistered or Done; the process is ended by exit(1) exactly when the
\* workflow ended in FatalFailure, and after AlreadyRegistered or Done main()
\* goes on to the listener
C25_StartupOrder ==
    /\ \A i \in DOMAIN requests :
         requests[i].method = "POST" =>
             \E j \in 1..(i - 1) : requests[j].method = "GET"
    /\ (pc = "serving" \/ app_state.some \/ response.some \/ InFlight # {})
         => workflow \in {"AlreadyRegistered", "Done"}
    /\ workflow = "FatalFailure" <=> pc = "exited"
    /\ pc = "exited" <=> exit_code = Some(1)
    /\ workflow \in {"AlreadyRegistered", "Done"} => pc \in {"bind", "serving", "panicked"}

\* the check confirmed the registration, no POST was sent, and a health query
\* has been answered
C25_Witness ==
    /\ workflow = "AlreadyRegistered"
    /\ Len(requests) = 1
    /\ requests[1].method = "GET"
    /\ pc = "serving"
    /\ response.some

----------------------------------------------------------------------------
(* Health and registration *)

\* the report that belongs to a probe outcome, an identity and a location on
\* a connection; nothing of the registration enters it
ReportFor(conn, identity, location, behaviour) ==
    health_handler([connection |-> conn, nostr_pubkey |-> identity, local_ip |-> location],
                   behaviour)

\* how the registration workflow of this run went
RegistrationPath ==
    IF workflow = "AlreadyRegistered" THEN "AlreadyRegistered"
    ELSE IF workflow = "Done" /\ CheckUnreachable THEN "Done after a failed check"
    ELSE IF workflow = "Done" THEN "Done after a clean check"
    ELSE "other"

\* C26: every answer to a health query is the report of its probe's outcome,
\* the local identity and the local address, the same on each of the three
\* paths the registration can have taken to get to serving; and from the
\* moment the process serves, no step sends a request to the registry
C26_HealthIgnoresRegistration ==
    [][/\ response'.some =>
            /\ RegistrationPath' \in {"AlreadyRegistered", "Done after a failed check",
                                      "Done after a clean check"}
            /\ response'.value.reply =
                 ReportFor(connection', PublicKeyHex(key_file'.value), local_ip',
                           response'.value.behaviour)
            /\ response'.value.reply.body.status = "Available"
                 <=> ProbeSucceeded(response'.value.behaviour)
       /\ pc = "serving" =>
            /\ requests' = requests
            /\ check_response' = check_response
            /\ register_response' = register_response
            /\ workflow' = workflow]_vars

\* the check could not reach the registry, the POST was accepted, and a good
\* inventory is reported Available
C26_Witness ==
    /\ pc = "serving"
    /\ RegistrationPath = "Done after a failed check"
    /\ Len(requests) = 2
    /\ response.some
    /\ ProbeSucceeded(response.value.behaviour)
    /\ response.value.reply.body.status = "Available"

----------------------------------------------------------------------------
(* One identity *)

\* the registry requests of this run
Gets == {i \in DOMAIN requests : requests[i].method = "GET"}
Posts == {i \in DOMAIN requests : requests[i].method = "POST"}

\* the registry URL said to be asked for the permission of a public key
ClaimedCheckUrl(identity) == env.REGISTRY_URL.value \o "/permissions/" \o identity

\* the node type configured: NODE_TYPE, or the default when it is not set
ConfiguredNodeType ==
    IF env.NODE_TYPE.some THEN env.NODE_TYPE.value ELSE "node-H100x1"

\* the public key is the same in the check URL, in the POST body and in every
\* report, and it is the key of the key file
OneIdentity ==
    /\ \A i \in Gets : requests[i].url = ClaimedCheckUrl(LocalIdentity)
    /\ \A i \in Posts :
         /\ requests[i].url = env.REGISTRY_URL.value \o "/workers"
         /\ DOMAIN requests[i].body.value = {"pubkey", "owner", "node_type"}
         /\ requests[i].body.value.pubkey = LocalIdentity
    /\ response.some => response.value.reply.body.pubkeys = {LocalIdentity}

\* C27 as stated: one identity, and the POST body carries the owner and the
\* node type as they are configured
C27_PostsConfiguredValues ==
    /\ OneIdentity
    /\ \A i \in Posts :
         /\ requests[i].body.value.owner = env.OWNER_ADDRESS.value
         /\ requests[i].body.value.node_type = ConfiguredNodeType

\* C27: one identity, and the POST body carries the configured node type and
\* the configured owner address in its checksummed spelling, which differs
\* from the configured string at most in the case of its letters
C27_PostsChecksummedOwner ==
    /\ OneIdentity
    /\ \A i \in Posts :
         /\ requests[i].body.value.owner = AddressDisplay[env.OWNER_ADDRESS.value]
         /\ requests[i].body.value.node_type = ConfiguredNodeType

\* a run with NODE_TYPE set has sent its GET and its POST and has answered a
\* health query
C27_Witness ==
    /\ Len(requests) = 2
    /\ requests[1].url = "http://registry:3000/permissions/b0b0000000000002"
    /\ requests[2].body.value =
         [pubkey |-> "b0b0000000000002",
          owner |-> "0x5aAeb6053F3E94C9b9A09f33669435E7Ef1BeAed",
          node_type |-> "node-H200x8"]
    /\ response.some
    /\ response.value.reply.body.pubkeys = {"b0b0000000000002"}

----------------------------------------------------------------------------
(* Termination of the registration workflow *)

\* the states in which ensure_worker_registered has returned
WorkflowEnded == workflow \in {"AlreadyRegistered", "Done", "FatalFailure"}

\* C28: once main() has entered the registration workflow, the workflow
\* reaches AlreadyRegistered, Done or FatalFailure; it never sends more than
\* one GET and one POST; and once ended it stays in the state it ended in
C28_WorkflowTerminates ==
    /\ (pc = "ensure_registered") ~> WorkflowEnded
    /\ [](Cardinality(Gets) <= 1 /\ Cardinality(Posts) <= 1)
    /\ [][WorkflowEnded => (workflow' = workflow /\ requests' = requests)]_vars

\* the workflow has ended in FatalFailure after one GET and one POST
C28_Witness ==
    /\ workflow = "FatalFailure"
    /\ Cardinality(Gets) = 1
    /\ Cardinality(Posts) = 1
    /\ register_response.some
    /\ pc = "exited"

====
